---- MODULE Spec2Model ----
(***************************************************************************)
(* State-machine model of the TMF API directory browser (src/script.js):   *)
(* payload normalisation, filtering / sorting / paging, and the hash       *)
(* router.  Strings are sequences of one-character strings so that slugs,  *)
(* trimming, lower-casing, splitting and substring search are computed.    *)
(***************************************************************************)
EXTENDS Integers, Sequences, FiniteSets, TLC

(***************************************************************************)
(* Characters and strings                                                  *)
(***************************************************************************)
UpperChars == <<"A","B","C","D","E","F","G","H","I","J","K","L","M",
                "N","O","P","Q","R","S","T","U","V","W","X","Y","Z">>

LowerChars == <<"a","b","c","d","e","f","g","h","i","j","k","l","m",
                "n","o","p","q","r","s","t","u","v","w","x","y","z">>

DigitChars == <<"0","1","2","3","4","5","6","7","8","9">>

\* Punctuation of the model's alphabet, in collation order.
PunctChars == <<" ", "-", ",", "/", "#", "%", "<", ">">>

Range(s) == {s[i] : i \in 1..Len(s)}

AllChars == Range(UpperChars) \cup Range(LowerChars) \cup Range(DigitChars)
              \cup Range(PunctChars)

IndexIn(s, c) == CHOOSE i \in 1..Len(s) : s[i] = c

IsUpper(c) == c \in Range(UpperChars)
IsLower(c) == c \in Range(LowerChars)
IsDigit(c) == c \in Range(DigitChars)
IsLetter(c) == IsUpper(c) \/ IsLower(c)

\* String.prototype.toLowerCase, per character.
LowerCh == [c \in AllChars |->
              IF IsUpper(c) THEN LowerChars[IndexIn(UpperChars, c)] ELSE c]

toLowerCase(s) == [i \in 1..Len(s) |-> LowerCh[s[i]]]

\* Primary collation weight of a character: punctuation < digits < letters,
\* letters of either case sharing a weight (sensitivity "base").
RankOf == [c \in AllChars |->
             IF c \in Range(PunctChars) THEN IndexIn(PunctChars, c)
             ELSE IF IsDigit(c) THEN 20 + IndexIn(DigitChars, c)
             ELSE 40 + IndexIn(LowerChars, LowerCh[c])]

RECURSIVE CompareFrom(_, _, _)
CompareFrom(a, b, i) ==
    IF i > Len(a) /\ i > Len(b) THEN 0
    ELSE IF i > Len(a) THEN -1
    ELSE IF i > Len(b) THEN 1
    ELSE IF RankOf[a[i]] < RankOf[b[i]] THEN -1
    ELSE IF RankOf[a[i]] > RankOf[b[i]] THEN 1
    ELSE CompareFrom(a, b, i + 1)

\* compareStrings: a.localeCompare(b, undefined, {sensitivity: "base"}).
compareStrings(a, b) == CompareFrom(a, b, 1)

\* String.prototype.trim (the alphabet's only white space is " ").
RECURSIVE TrimLeft(_)
TrimLeft(s) == IF s # <<>> /\ Head(s) = " " THEN TrimLeft(Tail(s)) ELSE s

RECURSIVE TrimRight(_)
TrimRight(s) ==
    IF s # <<>> /\ s[Len(s)] = " " THEN TrimRight(SubSeq(s, 1, Len(s) - 1)) ELSE s

trim(s) == TrimRight(TrimLeft(s))

\* String.prototype.includes: sub occurs in s as a contiguous run.
includes(s, sub) ==
    \E i \in 1..(Len(s) - Len(sub) + 1) : SubSeq(s, i, i + Len(sub) - 1) = sub

\* Array.prototype.join on an array of strings.
RECURSIVE join(_, _)
join(parts, sep) ==
    IF parts = <<>> THEN <<>>
    ELSE IF Len(parts) = 1 THEN parts[1]
    ELSE parts[1] \o sep \o join(Tail(parts), sep)

\* String.prototype.split on a one-character separator: cur is the piece
\* being read, acc the pieces already closed.
RECURSIVE SplitFrom(_, _, _, _)
SplitFrom(s, sep, cur, acc) ==
    IF s = <<>> THEN Append(acc, cur)
    ELSE IF Head(s) = sep THEN SplitFrom(Tail(s), sep, <<>>, Append(acc, cur))
    ELSE SplitFrom(Tail(s), sep, Append(cur, Head(s)), acc)

split(s, sep) == SplitFrom(s, sep, <<>>, <<>>)

\* Decimal rendering of a natural number (template-literal interpolation).
RECURSIVE numToStr(_)
numToStr(n) ==
    IF n < 10 THEN <<DigitChars[n + 1]>>
    ELSE Append(numToStr(n \div 10), DigitChars[(n % 10) + 1])

\* replace(/[^a-z0-9]+/g, "-"): every maximal run of characters outside
\* [a-z0-9] becomes one "-".  inRun says the previous character was in a run.
RECURSIVE CollapseRuns(_, _)
CollapseRuns(s, inRun) ==
    IF s = <<>> THEN <<>>
    ELSE IF IsLower(Head(s)) \/ IsDigit(Head(s))
         THEN <<Head(s)>> \o CollapseRuns(Tail(s), FALSE)
    ELSE IF inRun THEN CollapseRuns(Tail(s), TRUE)
    ELSE <<"-">> \o CollapseRuns(Tail(s), TRUE)

\* replace(/^-|-$/g, ""): one leading and one trailing "-" are removed.
StripEdgeDashes(s) ==
    LET a == IF s # <<>> /\ Head(s) = "-" THEN Tail(s) ELSE s
    IN  IF a # <<>> /\ a[Len(a)] = "-" THEN SubSeq(a, 1, Len(a) - 1) ELSE a

createSlug(value) ==
    LET s == StripEdgeDashes(CollapseRuns(toLowerCase(trim(value)), FALSE))
    IN  IF s = <<>> THEN <<"r","e","s","o","u","r","c","e">> ELSE s

\* stripHtml: the text content of the parsed markup.  A "<" followed by a
\* letter or "/" opens a tag that runs to the next ">" (to the end of the
\* input when there is none); any other "<" is text.
RECURSIVE SkipTag(_)
SkipTag(s) == IF s = <<>> THEN <<>>
              ELSE IF Head(s) = ">" THEN Tail(s) ELSE SkipTag(Tail(s))

RECURSIVE stripHtml(_)
stripHtml(html) ==
    IF html = <<>> THEN <<>>
    ELSE IF Head(html) = "<" /\ Len(html) > 1
            /\ (IsLetter(html[2]) \/ html[2] = "/")
         THEN stripHtml(SkipTag(Tail(html)))
    ELSE <<Head(html)>> \o stripHtml(Tail(html))

\* a || b on strings.
Or(a, b) == IF a # <<>> THEN a ELSE b

\* new Date(text).getTime() for the date texts of the model, NaN rendered as
\* -1: "YYYY MM DD" with a month 1..12 and a day 1..31 is a date, anything else
\* is not.  Time stamps are counted in days (y*372 + m*31 + d), which keeps
\* their order and keeps every date above 0.
DigitValue(c) == IndexIn(DigitChars, c) - 1

DateTime(text) ==
    LET isDigits(from, to) == \A i \in from..to : IsDigit(text[i])
        num(from, to) ==
            LET val[i \in (from - 1)..to] ==
                    IF i = from - 1 THEN 0 ELSE val[i - 1] * 10 + DigitValue(text[i])
            IN  val[to]
    IN  IF Len(text) = 10 /\ isDigits(1, 4) /\ text[5] = " " /\ isDigits(6, 7)
           /\ text[8] = " " /\ isDigits(9, 10)
           /\ num(6, 7) \in 1..12 /\ num(9, 10) \in 1..31
        THEN num(1, 4) * 372 + num(6, 7) * 31 + num(9, 10)
        ELSE -1

\* parseDate, lines 871-875.
parseDate(value) ==
    LET cleaned == trim([i \in 1..Len(value) |-> IF value[i] = "-" THEN " " ELSE value[i]])
        time == DateTime(Or(cleaned, value))
    IN  IF time = -1 THEN 0 ELSE time

\* a || b on comparator results.
OrCmp(a, b) == IF a # 0 THEN a ELSE b

\* Mutant of CompareVersions: equal dates are ordered by ascending label.
CompareVersionsAscendingLabels(a, b) ==
    LET dateDiff == parseDate(b.published) - parseDate(a.published)
    IN  IF dateDiff # 0 THEN dateDiff ELSE compareStrings(a.version, b.version)

\* Lines 242-248: the comparator of a document's versions.
CompareVersions(a, b) ==
    LET dateDiff == parseDate(b.published) - parseDate(a.published)
    IN  IF dateDiff # 0 THEN dateDiff ELSE compareStrings(b.version, a.version)

\* Line 252: the comparator of a version's options.
CompareOptions(a, b) == OrCmp(compareStrings(a.type, b.type), compareStrings(a.name, b.name))

\* Line 292: the comparator of the final document list.
CompareDocuments(a, b) ==
    OrCmp(compareStrings(a.documentNumber, b.documentNumber),
          compareStrings(a.apiName, b.apiName))

\* Lines 626-637: the comparators of sortDocuments.
CompareByType(a, b) ==
    OrCmp(compareStrings(a.primaryType, b.primaryType), compareStrings(a.apiName, b.apiName))

\* Mutant of CompareByDate: the earliest date first.
CompareByDateAscending(a, b) ==
    OrCmp(a.latestPublished - b.latestPublished, compareStrings(a.apiName, b.apiName))

CompareByDate(a, b) ==
    OrCmp(b.latestPublished - a.latestPublished, compareStrings(a.apiName, b.apiName))

CompareByName(a, b) ==
    OrCmp(compareStrings(a.apiName, b.apiName),
          compareStrings(a.documentNumber, b.documentNumber))

\* The comparator an Array.prototype.sort call is given, by name.
Compare(order, a, b) ==
    CASE order = "strings" -> compareStrings(a, b)
      [] order = "versions" -> CompareVersions(a, b)
      [] order = "options" -> CompareOptions(a, b)
      [] order = "documents" -> CompareDocuments(a, b)
      [] order = "type" -> CompareByType(a, b)
      [] order = "date" -> CompareByDate(a, b)
      [] order = "name" -> CompareByName(a, b)

\* The first position whose flag is TRUE, Len(flags) + 1 when there is none.
FirstTrue(flags) ==
    IF \E j \in 1..Len(flags) : flags[j]
    THEN CHOOSE j \in 1..Len(flags) : flags[j] /\ \A k \in 1..(j - 1) : ~flags[k]
    ELSE Len(flags) + 1

InsertAt(x, t, pos) == SubSeq(t, 1, pos - 1) \o <<x>> \o SubSeq(t, pos, Len(t))

\* Array.prototype.sort is stable: each element is inserted before the first
\* element it compares less than, after all the others.  A negative result
\* of the comparator places a before b.
InsertSorted(x, t, order) ==
    InsertAt(x, t, FirstTrue([j \in 1..Len(t) |-> Compare(order, x, t[j]) < 0]))

SortBy(s, order) ==
    LET sorted[n \in 0..Len(s)] ==
            IF n = 0 THEN <<>> ELSE InsertSorted(s[n], sorted[n - 1], order)
    IN  sorted[Len(s)]

\* Insertion-ordered set (JS Set): append when absent.
AddToSet(s, x) == IF x \in Range(s) THEN s ELSE Append(s, x)

(***************************************************************************)
(* Payload normalisation (normaliseResources)                              *)
(*                                                                         *)
(* A payload is a sequence of [category, groups], one per property of the  *)
(* payload object in iteration order; groups is the sequence of the values *)
(* of that category's object, each an array of entries or a value that is  *)
(* not an array.  An entry is a record of strings and an options sequence; *)
(* an absent field is the empty string (both are falsy).                   *)
(***************************************************************************)
Untitled == <<"U","n","t","i","t","l","e","d">>

Unversioned == <<"U","n","v","e","r","s","i","o","n","e","d">>

Download == <<"D","o","w","n","l","o","a","d">>

\* A value of a category's object: an array of entries, or a value without
\* a forEach method (null, a number, a string, an object).
ArrayGroup(entries) == [isArray |-> TRUE, entries |-> entries]

NonArrayGroup == [isArray |-> FALSE, entries |-> <<>>]

\* Line 153: entries.forEach throws a TypeError when entries is not an array.
ForEachThrows(payload) ==
    \E c \in 1..Len(payload) :
        \E g \in 1..Len(payload[c].groups) : ~payload[c].groups[g].isArray

RECURSIVE ConcatAll(_)
ConcatAll(ss) == IF ss = <<>> THEN <<>> ELSE Head(ss) \o ConcatAll(Tail(ss))

\* The entries of a category's arrays, in order.
EntriesOf(groups) == ConcatAll([g \in 1..Len(groups) |-> groups[g].entries])

Tagged(category, es) == [i \in 1..Len(es) |-> [category |-> category, entry |-> es[i]]]

\* The (categoryName, entry) pairs in the order of the three nested forEach.
PayloadItems(payload) ==
    ConcatAll([c \in 1..Len(payload) |->
        Tagged(payload[c].category, EntriesOf(payload[c].groups))])

\* entry?.options?.[0]?.name
FirstOptionName(entry) ==
    IF entry.options = <<>> THEN <<>> ELSE entry.options[1].name

\* Line 154: document_number || api_name || options[0].name || "Untitled".
EntryDocumentNumber(entry) ==
    Or(entry.document_number, Or(entry.api_name, Or(FirstOptionName(entry), Untitled)))

\* Line 155: api_name || documentNumber.
EntryApiName(entry) == Or(entry.api_name, EntryDocumentNumber(entry))

\* Line 156: documentNumber || apiName.
EntryKey(entry) == Or(EntryDocumentNumber(entry), EntryApiName(entry))

\* Lines 180-186: the trimmed, non-empty pieces of the context field.
ContextValues(entry) ==
    LET pieces == split(entry.context, ",")
        trimmed == [i \in 1..Len(pieces) |-> trim(pieces[i])]
    IN  IF entry.context = <<>> THEN <<>>
        ELSE SelectSeq(trimmed, LAMBDA v : v # <<>>)

RECURSIVE AddAll(_, _)
AddAll(s, xs) == IF xs = <<>> THEN s ELSE AddAll(AddToSet(s, Head(xs)), Tail(xs))

\* Lines 218-226: one stored option per raw option.
StoredOption(option) ==
    [type |-> option.type,
     name |-> Or(option.name, Download),
     downloadUrl |-> option.download,
     default |-> option.default,
     icon |-> option.icon]

\* Lines 192-226: fold an entry into the version map of its document.
FoldVersion(versions, entry) ==
    LET versionKey == Or(entry.version_info, Unversioned)
        has == \E i \in 1..Len(versions) : versions[i].version = versionKey
        base == IF has THEN versions
                ELSE Append(versions,
                       [version |-> versionKey,
                        release |-> entry.release_info,
                        lifecycle |-> entry.lifecycle_status,
                        published |-> entry.published_date,
                        notes |-> entry.notes,
                        options |-> <<>>])
        k == CHOOSE i \in 1..Len(base) : base[i].version = versionKey
        v == base[k]
        merged == [version |-> v.version,
                   release |-> Or(v.release, entry.release_info),
                   lifecycle |-> Or(v.lifecycle, entry.lifecycle_status),
                   published |-> Or(v.published, entry.published_date),
                   notes |-> Or(v.notes, entry.notes),
                   options |-> v.options \o
                      [i \in 1..Len(entry.options) |-> StoredOption(entry.options[i])]]
    IN  [base EXCEPT ![k] = merged]

\* Lines 158-169: the accumulator created for a key seen for the first time.
NewAccumulator(entry) ==
    [key |-> EntryKey(entry),
     documentNumber |-> EntryDocumentNumber(entry),
     apiName |-> EntryApiName(entry),
     description |-> entry.api_description,
     categories |-> <<>>,
     contexts |-> <<>>,
     lifecycle |-> <<>>,
     versions |-> <<>>]

\* Mutant of MergeEntry: the category is recorded only when the accumulator
\* is created.
MergeEntryKeepsFirstCategory(doc, categoryName, entry) ==
    [doc EXCEPT
       !.description = Or(doc.description, entry.api_description),
       !.categories = IF categoryName # <<>> /\ doc.categories = <<>>
                      THEN <<categoryName>> ELSE doc.categories,
       !.contexts = AddAll(doc.contexts, ContextValues(entry)),
       !.lifecycle = IF entry.lifecycle_status # <<>>
                     THEN AddToSet(doc.lifecycle, entry.lifecycle_status)
                     ELSE doc.lifecycle,
       !.versions = FoldVersion(doc.versions, entry)]

\* Mutant of MergeEntry: a later non-empty description replaces the stored one.
MergeEntryLastDescriptionWins(doc, categoryName, entry) ==
    [doc EXCEPT
       !.description = Or(entry.api_description, doc.description),
       !.categories = IF categoryName # <<>> THEN AddToSet(doc.categories, categoryName)
                      ELSE doc.categories,
       !.contexts = AddAll(doc.contexts, ContextValues(entry)),
       !.lifecycle = IF entry.lifecycle_status # <<>>
                     THEN AddToSet(doc.lifecycle, entry.lifecycle_status)
                     ELSE doc.lifecycle,
       !.versions = FoldVersion(doc.versions, entry)]

\* Lines 171-226: fold an entry into the accumulator of its key.
MergeEntry(doc, categoryName, entry) ==
    [doc EXCEPT
       !.description = Or(doc.description, entry.api_description),
       !.categories = IF categoryName # <<>> THEN AddToSet(doc.categories, categoryName)
                      ELSE doc.categories,
       !.contexts = AddAll(doc.contexts, ContextValues(entry)),
       !.lifecycle = IF entry.lifecycle_status # <<>>
                     THEN AddToSet(doc.lifecycle, entry.lifecycle_status)
                     ELSE doc.lifecycle,
       !.versions = FoldVersion(doc.versions, entry)]

\* Lines 153-227: one iteration of the innermost forEach.  byKey is the
\* insertion-ordered documentsByKey map, as the sequence of its values.
FoldEntry(byKey, categoryName, entry) ==
    LET key == EntryKey(entry)
        has == \E i \in 1..Len(byKey) : byKey[i].key = key
        base == IF has THEN byKey ELSE Append(byKey, NewAccumulator(entry))
        k == CHOOSE i \in 1..Len(base) : base[i].key = key
    IN  [base EXCEPT ![k] = MergeEntry(base[k], categoryName, entry)]

\* Lines 149-229.
DocumentsByKey(payload) ==
    LET items == PayloadItems(payload)
        folded[n \in 0..Len(items)] ==
            IF n = 0 THEN <<>>
            ELSE FoldEntry(folded[n - 1], items[n].category, items[n].entry)
    IN  folded[Len(items)]

\* Mutant of UniqueSlug: the suffix is appended once, without checking the
\* suffixed slug (an `if` for the `while`).
UniqueSlugOnce(slug, usedSlugs) ==
    IF slug \in usedSlugs
    THEN slug \o <<"-">> \o numToStr(Cardinality(usedSlugs) + 1)
    ELSE slug

\* Lines 235-238: the slug of a key given the slugs already used.
RECURSIVE UniqueSlug(_, _)
UniqueSlug(slug, usedSlugs) ==
    IF slug \in usedSlugs
    THEN UniqueSlug(slug \o <<"-">> \o numToStr(Cardinality(usedSlugs) + 1), usedSlugs)
    ELSE slug

\* Lines 241-256: the versions sorted, each with its options sorted.
SortOptions(versions) ==
    [i \in 1..Len(versions) |->
        [versions[i] EXCEPT !.options = SortBy(versions[i].options, "options")]]

VersionsOf(doc) == SortOptions(SortBy(doc.versions, "versions"))

\* Lines 257-260: the non-empty option types of all versions, sorted.
TypesOf(options) ==
    AddAll(<<>>, SelectSeq([i \in 1..Len(options) |-> options[i].type],
                           LAMBDA ty : ty # <<>>))

OptionTypesOf(versions) ==
    SortBy(TypesOf(ConcatAll([i \in 1..Len(versions) |-> versions[i].options])), "strings")

\* Line 262: Math.max(...versions.map(parseDate), 0).
MaxOf(dates) == CHOOSE d \in dates : \A e \in dates : e <= d

LatestPublished(versions) ==
    MaxOf({parseDate(versions[i].published) : i \in 1..Len(versions)} \cup {0})

\* Lines 264-273: the lowercased, tag-stripped search text.
SearchIndexOf(doc, versions, optionTypesList, contextsList) ==
    toLowerCase(stripHtml(join(
        <<doc.documentNumber,
          doc.apiName,
          doc.description,
          join(doc.categories, <<" ">>),
          join(contextsList, <<" ">>),
          join(doc.lifecycle, <<" ">>),
          join([i \in 1..Len(versions) |-> versions[i].version], <<" ">>),
          join(optionTypesList, <<" ">>)>>,
        <<" ">>)))

\* Lines 275-289: the Document record.
DocumentRecord(doc, slug, versions, optionTypesList, contextsList) ==
    [id |-> slug,
     key |-> doc.key,
     documentNumber |-> Or(doc.documentNumber, doc.key),
     apiName |-> Or(doc.apiName, Or(doc.documentNumber, doc.key)),
     description |-> doc.description,
     categories |-> SortBy(doc.categories, "strings"),
     contexts |-> contextsList,
     lifecycle |-> SortBy(doc.lifecycle, "strings"),
     versions |-> versions,
     optionTypes |-> optionTypesList,
     primaryType |-> IF optionTypesList = <<>> THEN <<>> ELSE optionTypesList[1],
     latestPublished |-> LatestPublished(versions),
     searchIndex |-> SearchIndexOf(doc, versions, optionTypesList, contextsList)]

WithVersions(doc, slug, versions) ==
    DocumentRecord(doc, slug, versions, OptionTypesOf(versions),
                   SortBy(doc.contexts, "strings"))

\* Lines 241-289: the Document built from an accumulator and its slug.
BuildDocument(doc, slug) == WithVersions(doc, slug, VersionsOf(doc))

\* Lines 231-239: the slugs given to the accumulators, in map order.
Slugs(byKey) ==
    LET slugs[n \in 0..Len(byKey)] ==
            IF n = 0 THEN <<>>
            ELSE Append(slugs[n - 1],
                        UniqueSlug(createSlug(byKey[n].key), Range(slugs[n - 1])))
    IN  slugs[Len(byKey)]

\* Lines 231-292: the accumulators turned into Documents, sorted.
BuildAll(byKey, slugs) ==
    SortBy([n \in 1..Len(byKey) |-> BuildDocument(byKey[n], slugs[n])], "documents")

WithSlugs(byKey) == BuildAll(byKey, Slugs(byKey))

\* normaliseResources, lines 148-295.
normaliseResources(payload) == WithSlugs(DocumentsByKey(payload))

(***************************************************************************)
(* Filter / sort / page engine and router, as functions of the application *)
(* state s: a record of the fields of `state` (lines 3-15) and of the       *)
(* browser state the handlers read and write.                               *)
(***************************************************************************)
pageSize == 10

All == <<"a","l","l">>

IndexRoute == [view |-> "index", id |-> <<>>]

DetailRoute(id) == [view |-> "detail", id |-> id]

IndexHash == <<"#","/">>

DocumentPrefix == <<"#","/","d","o","c","u","m","e","n","t","/">>

NotFoundMessage == "The requested API could not be found."
LoadingMessage == "Loading resources..."
ProxyMessage == "Loaded via compatibility proxy because the TMF bucket blocks cross-origin requests."
LoadErrorMessage == "Unable to load resources right now. Please try again later."

\* setStatus, lines 731-744: hiding leaves the text and the error class alone.
setStatus(s, message, isError, hide) ==
    IF hide THEN [s EXCEPT !.status.hidden = TRUE]
    ELSE [s EXCEPT !.status = [hidden |-> FALSE, message |-> message, error |-> isError]]

\* Math.ceil(n / pageSize)
CeilPages(n) == (n + pageSize - 1) \div pageSize

\* Mutant of PageItems: the slice starts one page further on.
PageItemsFromNextPage(filtered, currentPage) ==
    SubSeq(filtered, currentPage * pageSize + 1,
           IF (currentPage + 1) * pageSize < Len(filtered)
           THEN (currentPage + 1) * pageSize ELSE Len(filtered))

\* Lines 373-374: the page slice.
PageItems(filtered, currentPage) ==
    LET startIndex == (currentPage - 1) * pageSize
        last == IF startIndex + pageSize < Len(filtered) THEN startIndex + pageSize
                ELSE Len(filtered)
    IN  SubSeq(filtered, startIndex + 1, last)

\* renderIndex, lines 362-442: clamps the page and draws the cards.
renderIndex(s) ==
    LET totalItems == Len(s.filtered)
        totalPages == IF totalItems # 0 THEN CeilPages(totalItems) ELSE 0
        clamped == IF totalPages # 0 /\ s.currentPage > totalPages
                   THEN totalPages ELSE s.currentPage
        page == IF totalPages = 0 THEN 1 ELSE clamped
        pageItems == PageItems(s.filtered, page)
    IN  [s EXCEPT !.currentPage = page,
                  !.cards = [i \in 1..Len(pageItems) |-> pageItems[i].id]]

\* encodeURIComponent: letters, digits and "-" stand for themselves, the
\* other characters of the alphabet are percent-encoded.
PercentCode == [c \in Range(PunctChars) \ {"-"} |->
    CASE c = " " -> <<"%","2","0">>
      [] c = "," -> <<"%","2","C">>
      [] c = "/" -> <<"%","2","F">>
      [] c = "#" -> <<"%","2","3">>
      [] c = "%" -> <<"%","2","5">>
      [] c = "<" -> <<"%","3","C">>
      [] c = ">" -> <<"%","3","E">>]

encodeURIComponent(str) ==
    ConcatAll([i \in 1..Len(str) |->
        IF str[i] \in DOMAIN PercentCode THEN PercentCode[str[i]] ELSE <<str[i]>>])

\* decodeURIComponent: [ok |-> TRUE, value] or, for a "%" that starts no
\* escape of the alphabet, [ok |-> FALSE] (the URIError it throws).
RECURSIVE decodeURIComponent(_)
decodeURIComponent(str) ==
    IF str = <<>> THEN [ok |-> TRUE, value |-> <<>>]
    ELSE IF Head(str) # "%"
         THEN LET rest == decodeURIComponent(Tail(str))
              IN  IF rest.ok THEN [ok |-> TRUE, value |-> <<Head(str)>> \o rest.value]
                  ELSE rest
    ELSE IF Len(str) >= 3
            /\ \E c \in DOMAIN PercentCode : PercentCode[c] = SubSeq(str, 1, 3)
         THEN LET rest == decodeURIComponent(SubSeq(str, 4, Len(str)))
                  ch == CHOOSE c \in DOMAIN PercentCode : PercentCode[c] = SubSeq(str, 1, 3)
              IN  IF rest.ok THEN [ok |-> TRUE, value |-> <<ch>> \o rest.value]
                  ELSE rest
    ELSE [ok |-> FALSE, value |-> <<>>]

\* parseHash, lines 308-320: [ok |-> TRUE, route] or [ok |-> FALSE] when
\* decodeURIComponent throws.
parseHash(hash) ==
    LET stripped == trim(IF hash # <<>> /\ Head(hash) = "#" THEN Tail(hash) ELSE hash)
        parts == SelectSeq(split(stripped, "/"), LAMBDA part : part # <<>>)
    IN  IF stripped = <<>> \/ stripped = <<"/">>
        THEN [ok |-> TRUE, route |-> IndexRoute]
        ELSE IF Len(parts) >= 2 /\ parts[1] = <<"d","o","c","u","m","e","n","t">>
             THEN LET id == decodeURIComponent(parts[2])
                  IN  IF id.ok THEN [ok |-> TRUE, route |-> DetailRoute(id.value)]
                      ELSE [ok |-> FALSE, route |-> IndexRoute]
        ELSE [ok |-> TRUE, route |-> IndexRoute]

\* Assigning window.location.hash: a changed fragment queues one hashchange.
SetHash(s, target) ==
    IF s.hash = target THEN s
    ELSE [s EXCEPT !.hash = target, !.pending = @ + 1]

RECURSIVE renderRoute(_)
RECURSIVE navigateToIndex(_)

\* Mutant of navigateToIndex: the fragment is assigned in every case, and the
\* route is left to a hashchange event.
navigateToIndexByHashOnly(s) == SetHash(s, IndexHash)

\* navigateToIndex, lines 772-779.
navigateToIndex(s) ==
    IF s.hash = IndexHash \/ s.hash = <<>> \/ s.hash = <<"#">>
    THEN renderRoute([s EXCEPT !.route = IndexRoute])
    ELSE SetHash(s, IndexHash)

\* Mutant of renderRoute: a known document is shown whether or not it is in
\* the filtered list (lines 345-348 left out).
renderRouteSkipsFilterCheck(s) ==
    LET isDetail == s.route.view = "detail"
        shown == [s EXCEPT !.detailHidden = ~isDetail]
    IN  IF Len(s.documents) = 0 THEN renderIndex(shown)
        ELSE IF isDetail
        THEN IF s.route.id \notin DOMAIN s.documentMap
             THEN navigateToIndex(setStatus(shown, NotFoundMessage, TRUE, FALSE))
             ELSE renderIndex([shown EXCEPT !.detailPanel = s.route.id])
        ELSE renderIndex([shown EXCEPT !.detailPanel = <<>>])

\* renderRoute, lines 322-360.
renderRoute(s) ==
    LET isDetail == s.route.view = "detail"
        shown == [s EXCEPT !.detailHidden = ~isDetail]
    IN  IF Len(s.documents) = 0 THEN renderIndex(shown)
        ELSE IF isDetail
        THEN IF s.route.id \notin DOMAIN s.documentMap
             THEN navigateToIndex(setStatus(shown, NotFoundMessage, TRUE, FALSE))
             ELSE IF ~\E i \in 1..Len(s.filtered) : s.filtered[i].id = s.route.id
             THEN navigateToIndex(shown)
             ELSE renderIndex([shown EXCEPT !.detailPanel = s.route.id])
        ELSE renderIndex([shown EXCEPT !.detailPanel = <<>>])

\* The number of times renderRoute runs when it is called in s: once, and
\* once more when it redirects (lines 339-348) and navigateToIndex, finding
\* the fragment already at the index, calls it again (lines 774-775).
RECURSIVE renderRouteCalls(_)
renderRouteCalls(s) ==
    IF /\ Len(s.documents) # 0
       /\ s.route.view = "detail"
       /\ \/ s.route.id \notin DOMAIN s.documentMap
          \/ ~\E i \in 1..Len(s.filtered) : s.filtered[i].id = s.route.id
       /\ (s.hash = IndexHash \/ s.hash = <<>> \/ s.hash = <<"#">>)
    THEN 1 + renderRouteCalls([s EXCEPT !.route = IndexRoute])
    ELSE 1

\* Mutant of navigateToDocument: the fragment is assigned in every case, and
\* the route is left to a hashchange event.
navigateToDocumentByHashOnly(s, id) == SetHash(s, DocumentPrefix \o encodeURIComponent(id))

\* navigateToDocument, lines 781-789.
navigateToDocument(s, id) ==
    LET targetHash == DocumentPrefix \o encodeURIComponent(id)
    IN  IF s.hash = targetHash
        THEN renderRoute([s EXCEPT !.route = DetailRoute(id)])
        ELSE SetHash(s, targetHash)

\* Mutant of handleRouteChange: the page is kept when the view type changes.
handleRouteChangeKeepsPage(s) ==
    LET parsed == parseHash(s.hash)
    IN  IF parsed.ok THEN renderRoute([s EXCEPT !.route = parsed.route]) ELSE s

\* handleRouteChange, lines 297-306.  When parseHash throws the handler ends
\* there, before the assignment.
handleRouteChange(s) ==
    LET parsed == parseHash(s.hash)
        routed == [s EXCEPT !.route = parsed.route,
                            !.currentPage = IF s.route.view # parsed.route.view
                                            THEN 1 ELSE s.currentPage]
    IN  IF parsed.ok THEN renderRoute(routed) ELSE s

\* Mutant of MatchesFilters: the domain test is left out.
MatchesFiltersIgnoresDomain(doc, activeCategory, activeDomain, searchTerm) ==
    /\ activeCategory = All \/ activeCategory \in Range(doc.categories)
    /\ searchTerm = <<>> \/ includes(doc.searchIndex, searchTerm)

\* Lines 595-611: the filter predicate.
MatchesFilters(doc, activeCategory, activeDomain, searchTerm) ==
    /\ activeCategory = All \/ activeCategory \in Range(doc.categories)
    /\ activeDomain = All \/ activeDomain \in Range(doc.contexts)
    /\ searchTerm = <<>> \/ includes(doc.searchIndex, searchTerm)

\* sortDocuments, lines 623-640.
sortDocuments(items, currentSort) ==
    CASE currentSort = "type" -> SortBy(items, "type")
      [] currentSort = "date" -> SortBy(items, "date")
      [] OTHER -> SortBy(items, "name")

\* Lines 595-613: the filtered, sorted list.
FilterAndSort(documents, activeCategory, activeDomain, searchTerm, currentSort) ==
    sortDocuments(
        SelectSeq(documents,
                  LAMBDA doc : MatchesFilters(doc, activeCategory, activeDomain, searchTerm)),
        currentSort)

\* Mutant of StoreFiltered: the route is not rendered again (line 620 left
\* out).
StoreFilteredWithoutRoute(s, filtered, maxPages) ==
    [s EXCEPT !.filtered = filtered,
              !.currentPage = IF s.currentPage > maxPages THEN 1 ELSE s.currentPage]

\* Lines 613-620: the filtered list is stored, a page beyond the last is
\* reset to 1 and the route is rendered.
StoreFiltered(s, filtered, maxPages) ==
    renderRoute([s EXCEPT !.filtered = filtered,
                          !.currentPage = IF s.currentPage > maxPages
                                          THEN 1 ELSE s.currentPage])

\* Math.max(1, Math.ceil(filtered.length / pageSize)), line 615.
MaxPages(filtered) == CeilPages(IF Len(filtered) > 1 THEN Len(filtered) ELSE 1)

PagedFiltered(s, filtered) == StoreFiltered(s, filtered, MaxPages(filtered))

\* applyFilters, lines 594-621.
applyFilters(s) ==
    PagedFiltered(s, FilterAndSort(s.documents, s.activeCategory, s.activeDomain,
                                   s.searchTerm, s.currentSort))

\* The option values populateCategories / populateDomains write into the
\* select elements (lines 673-688, 705-720), without the leading "all".
CategoriesOf(documents) ==
    SortBy(AddAll(<<>>, ConcatAll([i \in 1..Len(documents) |-> documents[i].categories])),
           "strings")

DomainsOf(documents) ==
    SortBy(AddAll(<<>>, ConcatAll([i \in 1..Len(documents) |-> documents[i].contexts])),
           "strings")

\* populateCategories, lines 667-697.  The select's value is the value the
\* change handler copied into activeCategory.
populateCategories(s, documents) ==
    [s EXCEPT !.activeCategory =
        IF s.activeCategory \in Range(CategoriesOf(documents)) THEN s.activeCategory ELSE All]

\* populateDomains, lines 699-729.
populateDomains(s, documents) ==
    [s EXCEPT !.activeDomain =
        IF s.activeDomain \in Range(DomainsOf(documents)) THEN s.activeDomain ELSE All]

\* new Map(documents.map((doc) => [doc.id, doc])), line 129: a later document
\* replaces an earlier one with the same id.
DocumentMapOf(documents) ==
    [id \in {documents[i].id : i \in 1..Len(documents)} |->
        LET k == CHOOSE i \in 1..Len(documents) :
                    /\ documents[i].id = id
                    /\ \A j \in (i + 1)..Len(documents) : documents[j].id # id
        IN  documents[k]]

\* The sources of getApiSources (lines 91-97), by position; 1 is API_URL.
NumSources == 3

\* Lines 127-130: the documents, their map and page 1 are stored.
StoreDocuments(s, documents, source) ==
    [s EXCEPT !.apiSource = source,
              !.documents = documents,
              !.documentMap = DocumentMapOf(documents),
              !.currentPage = 1]

\* Mutant of ShowLoaded: the banner is hidden whichever source answered.
ShowLoadedAlwaysHides(s, source) == setStatus(s, "", FALSE, TRUE)

\* Lines 131-138: the selects are refilled, the filters applied and the
\* banner set.
ShowLoaded(s, source) ==
    IF source # 1 THEN setStatus(s, ProxyMessage, FALSE, FALSE)
    ELSE setStatus(s, "", FALSE, TRUE)

Populated(s, documents) ==
    applyFilters(populateDomains(populateCategories(s, documents), documents))

Loaded(s, documents, source) ==
    ShowLoaded(Populated(StoreDocuments(s, documents, source), documents), source)

\* fetchResources after loadPayload returned from `source`, lines 126-144.
LoadSucceeded(s, data, source) ==
    [Loaded(s, normaliseResources(data), source) EXCEPT !.spinner = FALSE]

\* The errors of the model: the failure of a source's attempt and the
\* TypeError of the normaliser.
NoError == [kind |-> "none", source |-> 0]

FetchError(source) == [kind |-> "fetch", source |-> source]

TypeError == [kind |-> "TypeError", source |-> 0]

\* The catch and finally blocks of fetchResources, lines 139-145: the error
\* is logged and reported.
LoadFailed(s, error) ==
    [setStatus(s, LoadErrorMessage, TRUE, FALSE) EXCEPT !.spinner = FALSE,
                                                        !.logged = error]

\* fetchResources after loadPayload returned from `source`, lines 126-145:
\* the source is stored, then normaliseResources returns or throws.
Fetched(s, data, source) ==
    IF ForEachThrows(data)
    THEN LoadFailed([s EXCEPT !.apiSource = source], TypeError)
    ELSE LoadSucceeded(s, data, source)

(***************************************************************************)
(* Inputs: payloads, fragments, search texts                               *)
(***************************************************************************)
Option(type, name) ==
    [type |-> type, name |-> name, download |-> <<>>, default |-> <<>>, icon |-> <<>>]

Entry(documentNumber, apiName, description, context, lifecycle, version, published, options) ==
    [document_number |-> documentNumber,
     api_name |-> apiName,
     api_description |-> description,
     context |-> context,
     lifecycle_status |-> lifecycle,
     version_info |-> version,
     release_info |-> <<>>,
     published_date |-> published,
     notes |-> <<>>,
     options |-> options]

Date2023 == <<"2","0","2","3","-","0","1","-","0","1">>

Date2024 == <<"2","0","2","4","-","0","6","-","1","5">>

\* The raw entries the bounded payloads are built from: keys that are equal,
\* that differ only in case, and that equal another key's suffixed slug; key
\* sources of every kind (document number, API name, first option, none);
\* published dates that are dates, empty, or no date at all.
EntryPool ==
    { Entry(<<"a">>, <<>>, <<>>, <<>>, <<>>, <<>>, <<>>, <<>>),
      Entry(<<"a">>, <<"n">>, <<"x">>, <<"p">>, <<"L">>, <<"v","1">>, Date2023,
            <<Option(<<"p","d","f">>, <<"d">>)>>),
      Entry(<<"a">>, <<"m">>, <<"<","b",">","y">>, <<" ","q"," ",",","p">>, <<"M">>,
            <<"v","2">>, Date2024, <<Option(<<"z","i","p">>, <<>>)>>),
      Entry(<<"A">>, <<>>, <<"x">>, <<"p">>, <<"L">>, <<"v","1">>, <<>>, <<>>),
      Entry(<<"a","-","3">>, <<"n">>, <<>>, <<>>, <<>>, <<>>, Date2023, <<>>),
      Entry(<<>>, <<"a">>, <<"y">>, <<"q">>, <<"M">>, <<"v","2">>, <<>>, <<>>),
      Entry(<<>>, <<>>, <<>>, <<"p">>, <<>>, <<>>, <<>>,
            <<Option(<<>>, <<"A">>)>>),
      Entry(<<>>, <<>>, <<"x">>, <<>>, <<"L">>, <<"v","1">>, Date2024, <<>>),
      Entry(<<"a">>, <<>>, <<>>, <<>>, <<>>, <<"V","3">>, <<"x">>, <<>>) }

MaxEntries == 3

SeqsUpTo(S, n) == UNION {[1..k -> S] : k \in 0..n}

CategoryX == <<"X">>

CategoryY == <<"Y">>

\* Every payload of two categories holding at most MaxEntries pool entries.
WellFormedPayloads ==
    { <<[category |-> CategoryX, groups |-> <<ArrayGroup(xs)>>],
        [category |-> CategoryY, groups |-> <<ArrayGroup(ys)>>]>> :
      xs \in SeqsUpTo(EntryPool, MaxEntries),
      ys \in {zs \in SeqsUpTo(EntryPool, MaxEntries) : Len(zs) <= 1} }

\* Payloads with a category value that is not an array, after an array of at
\* most one entry.
MalformedPayloads ==
    { <<[category |-> CategoryX, groups |-> <<ArrayGroup(xs), NonArrayGroup>>]>> :
      xs \in {zs \in SeqsUpTo(EntryPool, MaxEntries) : Len(zs) <= 1} }

NormPayloads == WellFormedPayloads \cup MalformedPayloads

\* A catalogue of eleven documents (two pages): "t01" .. "t11", the sixth
\* listed under both categories.
BigEntry(i) ==
    Entry(<<"t", DigitChars[(i \div 10) + 1], DigitChars[(i % 10) + 1]>>,
          <<IF i % 2 = 0 THEN UpperChars[12 - i] ELSE LowerChars[12 - i]>>,
          IF i = 1 THEN <<"<","b",">","R","e","s","t","<","/","b",">">> ELSE <<>>,
          IF i <= 2 THEN <<"q">> ELSE <<>>,
          <<>>,
          <<"v","1">>,
          IF i % 3 = 0 THEN Date2024 ELSE IF i % 3 = 1 THEN Date2023 ELSE <<>>,
          IF i % 2 = 0 THEN <<Option(<<"p","d","f">>, <<>>)>> ELSE <<>>)

BigPayload ==
    <<[category |-> CategoryX,
       groups |-> <<ArrayGroup([i \in 1..3 |-> BigEntry(i)]),
                    ArrayGroup([i \in 1..3 |-> BigEntry(i + 3)])>>],
      [category |-> CategoryY,
       groups |-> <<ArrayGroup([i \in 1..6 |-> BigEntry(i + 5)])>>]>>

EmptyPayload == <<>>

\* The catalogue with one more category, whose only value is not an array.
BrokenPayload ==
    BigPayload \o <<[category |-> <<"Z">>, groups |-> <<NonArrayGroup>>]>>

AppPayloads == {BigPayload, EmptyPayload, BrokenPayload}

UnknownHash == DocumentPrefix \o <<"z","z">>

FirstHash == DocumentPrefix \o <<"t","0","1">>

InitialHashes == {<<>>, UnknownHash, FirstHash}

UserHashes == {IndexHash, UnknownHash, FirstHash}

\* The values window.location.hash may take when a user types a fragment:
\* "#" and up to MaxPieces pieces, among them a "%" that starts no escape.
HashPieces ==
    {<<"#">>, <<"/">>, <<"d","o","c","u","m","e","n","t">>, <<"%">>, <<"%","2","0">>,
     <<"%","2","F">>, <<"a">>}

MaxPieces == 4

Fragments == {<<"#">> \o ConcatAll(ps) : ps \in SeqsUpTo(HashPieces, MaxPieces)}

SearchInputs == {<<>>, <<" ","T","0">>}

\* The values of the sort select, and one value sortDocuments has no case for.
SortKeys == {"name", "type", "date", "rank"}

\* Queued hashchange events are capped at MaxPending.
MaxPending == 1

\* Card positions a click may pick on the rendered page.
MaxCardIndex == 1

(***************************************************************************)
(* State                                                                   *)
(***************************************************************************)
VARIABLES
    state,    \* the `state` object (lines 3-15) with the browser state the
              \* handlers use: hash (window.location.hash), pending (queued
              \* hashchange events), status (the banner), spinner, cards (ids
              \* of the rendered cards), detailPanel, detailHidden, lastError
              \* (the lastError of loadPayload, line 100) and logged (the
              \* error fetchResources logs, line 140)
    payload,  \* the JSON document the sources serve
    attempt,  \* the source loadPayload is waiting for (1..NumSources), 0 when
              \* fetchResources has finished
    last,     \* history: the kind of the last event handled ("filter" for the
              \* four filter and sort inputs, "page" for the two page buttons),
              \* with the page and the view type it started from
    trip      \* history: progress of an index -> detail -> index round trip

vars == <<state, payload, attempt, last, trip>>

\* The state when the DOMContentLoaded handler (lines 40-46) has started
\* fetchResources and waits for the first source.
InitialState(hash) ==
    [documents |-> <<>>,
     filtered |-> <<>>,
     documentMap |-> <<>>,
     currentPage |-> 1,
     searchTerm |-> <<>>,
     currentSort |-> "name",
     activeCategory |-> All,
     activeDomain |-> All,
     apiSource |-> 1,
     route |-> IndexRoute,
     hash |-> hash,
     pending |-> 0,
     status |-> [hidden |-> FALSE, message |-> LoadingMessage, error |-> FALSE],
     spinner |-> TRUE,
     cards |-> <<>>,
     detailPanel |-> <<>>,
     detailHidden |-> TRUE,
     lastError |-> NoError,
     logged |-> NoError]

NoTrip == [phase |-> "none", page |-> 0, sort |-> "", ids |-> <<>>]

NoEvent == [event |-> "start", page |-> 1, view |-> "index"]

Ids(documents) == [i \in 1..Len(documents) |-> documents[i].id]

Init ==
    /\ payload \in AppPayloads
    /\ \E hash \in InitialHashes : state = InitialState(hash)
    /\ attempt = 1
    /\ last = NoEvent
    /\ trip = NoTrip

InitNorm ==
    /\ payload \in NormPayloads
    /\ state = InitialState(<<>>)
    /\ attempt = 1
    /\ last = NoEvent
    /\ trip = NoTrip

(***************************************************************************)
(* Events                                                                  *)
(***************************************************************************)
\* The round trip of a card click from a settled index view, the delivery of
\* its hashchange, a click on the close button and the delivery of that
\* hashchange; any other event ends it.
TripNext(event, s, t) ==
    CASE event = "click" /\ s.route.view = "index" /\ s.pending = 0 /\ t.pending = 1
           -> [phase |-> "toDetail", page |-> s.currentPage, sort |-> s.currentSort,
               ids |-> Ids(s.filtered)]
      [] event = "hashchange" /\ trip.phase = "toDetail" /\ t.route.view = "detail"
           /\ t.pending = 0
           -> [trip EXCEPT !.phase = "inDetail"]
      [] event = "close" /\ trip.phase = "inDetail" /\ t.pending = 1
           -> [trip EXCEPT !.phase = "toIndex"]
      [] event = "hashchange" /\ trip.phase = "toIndex" /\ t.route.view = "index"
           /\ t.pending = 0
           -> [trip EXCEPT !.phase = "back"]
      [] OTHER -> NoTrip

\* An event handler ran from state to t; an event that would queue more than
\* MaxPending hashchange events is left out.
Handled(event, t) ==
    /\ t.pending <= MaxPending
    /\ state' = t
    /\ last' = [event |-> event, page |-> state.currentPage, view |-> state.route.view]
    /\ trip' = TripNext(event, state, t)
    /\ UNCHANGED payload

\* Line 113: the failure of an attempt is kept in lastError.
Failed(s, source) == [s EXCEPT !.lastError = FetchError(source)]

\* loadPayload, lines 99-119: the source answers with an error, a bad status
\* or an unparsable body, and the next source is tried.
FetchFails ==
    /\ attempt \in 1..(NumSources - 1)
    /\ attempt' = attempt + 1
    /\ Handled("fetchFailed", Failed(state, attempt))

\* Mutant of FetchFailsLast: loadPayload throws the failure of the first
\* attempt.
FetchFailsLastThrowsFirst ==
    /\ attempt = NumSources
    /\ attempt' = 0
    /\ Handled("loadFailed",
               handleRouteChange(LoadFailed(Failed(state, attempt), FetchError(1))))

\* The last source fails: loadPayload throws, fetchResources reports it and
\* the .finally callback of line 45 runs handleRouteChange.
FetchFailsLast ==
    /\ attempt = NumSources
    /\ attempt' = 0
    /\ Handled("loadFailed",
               handleRouteChange(LoadFailed(Failed(state, attempt), FetchError(attempt))))

\* A source answers: the rest of fetchResources and the .finally callback.
FetchSucceeds ==
    /\ attempt \in 1..NumSources
    /\ attempt' = 0
    /\ Handled(IF ForEachThrows(payload) THEN "normaliseFailed" ELSE "loaded",
               handleRouteChange(Fetched(state, payload, attempt)))

\* The search input handler, lines 49-53.
SearchInput ==
    /\ \E text \in SearchInputs :
         Handled("filter", applyFilters([state EXCEPT !.searchTerm = toLowerCase(trim(text)),
                                                      !.currentPage = 1]))
    /\ UNCHANGED attempt

\* Mutant of CategoryChange: applyFilters is not called.
CategoryChangeWithoutApply ==
    /\ \E value \in {All} \cup Range(CategoriesOf(state.documents)) :
         Handled("filter", [state EXCEPT !.activeCategory = value, !.currentPage = 1])
    /\ UNCHANGED attempt

\* The category select handler, lines 55-59.
CategoryChange ==
    /\ \E value \in {All} \cup Range(CategoriesOf(state.documents)) :
         Handled("filter", applyFilters([state EXCEPT !.activeCategory = value,
                                                        !.currentPage = 1]))
    /\ UNCHANGED attempt

\* The domain select handler, lines 61-65.
DomainChange ==
    /\ \E value \in {All} \cup Range(DomainsOf(state.documents)) :
         Handled("filter", applyFilters([state EXCEPT !.activeDomain = value,
                                                      !.currentPage = 1]))
    /\ UNCHANGED attempt

\* Mutant of SortChange: the page is not set to 1 before applyFilters.
SortChangeKeepsPage ==
    /\ \E value \in SortKeys :
         Handled("filter", applyFilters([state EXCEPT !.currentSort = value]))
    /\ UNCHANGED attempt

\* The sort select handler, lines 67-71.
SortChange ==
    /\ \E value \in SortKeys :
         Handled("filter", applyFilters([state EXCEPT !.currentSort = value,
                                                    !.currentPage = 1]))
    /\ UNCHANGED attempt

\* The previous-page handler, lines 73-78.
PrevPage ==
    /\ Handled("page", IF state.currentPage > 1
                       THEN renderRoute([state EXCEPT !.currentPage = @ - 1])
                       ELSE state)
    /\ UNCHANGED attempt

\* The next-page handler, lines 80-86.
NextPage ==
    /\ LET totalPages == IF Len(state.filtered) = 0 THEN 1
                         ELSE CeilPages(Len(state.filtered))
       IN  Handled("page", IF state.currentPage < totalPages
                           THEN renderRoute([state EXCEPT !.currentPage = @ + 1])
                           ELSE state)
    /\ UNCHANGED attempt

\* A click (or Enter) on a rendered card, lines 428-434.
CardClick ==
    /\ \E i \in 1..MaxCardIndex :
         /\ i <= Len(state.cards)
         /\ Handled("click", navigateToDocument(state, state.cards[i]))
    /\ UNCHANGED attempt

\* The close button of the detail panel (line 470) or the breadcrumb's Home
\* link (lines 804-807), present while a detail panel is drawn.
CloseDetail ==
    /\ state.detailPanel # <<>>
    /\ ~state.detailHidden
    /\ Handled("close", navigateToIndex(state))
    /\ UNCHANGED attempt

\* The user edits the fragment or moves through the history: the fragment
\* changes and a hashchange event is queued.
UserNavigates ==
    /\ \E target \in UserHashes :
         /\ target # state.hash
         /\ Handled("user", SetHash(state, target))
    /\ UNCHANGED attempt

\* A queued hashchange event is delivered to handleRouteChange (line 44).
HashChange ==
    /\ state.pending > 0
    /\ Handled("hashchange", handleRouteChange([state EXCEPT !.pending = @ - 1]))
    /\ UNCHANGED attempt

Next ==
    \/ FetchFails
    \/ FetchFailsLast
    \/ FetchSucceeds
    \/ SearchInput
    \/ CategoryChange
    \/ DomainChange
    \/ SortChange
    \/ PrevPage
    \/ NextPage
    \/ CardClick
    \/ CloseDetail
    \/ UserNavigates
    \/ HashChange

Spec == Init /\ [][Next]_vars

\* The application with every queued hashchange event eventually delivered:
\* the browser fires the hashchange task it has queued.  HashChange is
\* enabled exactly when an event is pending, so this is WF_vars(HashChange).
Delivery == []<>(state.pending = 0) \/ []<><<HashChange>>_vars

SpecDeliver == Spec /\ Delivery

\* The router alone: while the first source is awaited the user types a
\* fragment, and its hashchange event is delivered.
InitHash ==
    /\ payload = EmptyPayload
    /\ \E fragment \in Fragments : state = SetHash(InitialState(<<>>), fragment)
    /\ attempt = 1
    /\ last = NoEvent
    /\ trip = NoTrip

NextHash == HashChange

SpecHash == InitHash /\ [][NextHash]_vars

\* A fragment whose id holds a "%" that starts no escape.
BadHash == DocumentPrefix \o <<"%">>

\* fetchResources alone, from a page opened at any fragment: the sources
\* answer or fail while the user may already type a search text or pick a
\* sort order.  Every fetch settles (it is a promise of the browser's fetch,
\* awaited at lines 103-109), so an attempt that is awaited is eventually
\* answered.
InitLoad ==
    /\ payload \in AppPayloads
    /\ \E hash \in InitialHashes \cup {BadHash} : state = InitialState(hash)
    /\ attempt = 1
    /\ last = NoEvent
    /\ trip = NoTrip

NextLoad ==
    \/ FetchFails
    \/ FetchFailsLast
    \/ FetchSucceeds
    \/ SearchInput
    \/ SortChange

\* The attempt that is awaited settles: `attempt` moves on.
AttemptSettles == attempt # 0 /\ attempt' \in (0..NumSources) \ {attempt}

SpecLoad == InitLoad /\ [][NextLoad]_vars /\ WF_attempt(AttemptSettles)

\* The normaliser alone: a bounded payload is loaded and normalised.
NextNorm == FetchSucceeds

SpecNorm == InitNorm /\ [][NextNorm]_vars

(***************************************************************************)
(* Claims about the router and the filter engine (specification Spec)      *)
(***************************************************************************)
IndexLike(hash) == hash = IndexHash \/ hash = <<>> \/ hash = <<"#">>

\* The fragment names the detail view of id.
NamesDetail(hash, id) ==
    /\ parseHash(hash).ok
    /\ parseHash(hash).route = DetailRoute(id)

InFiltered(s, id) == \E i \in 1..Len(s.filtered) : s.filtered[i].id = id

NoticeVisible(s) ==
    s.status = [hidden |-> FALSE, message |-> NotFoundMessage, error |-> TRUE]

\* C1: with documents loaded, the delivery of a hashchange whose fragment
\* names a document that is in the document map but not in the filtered list
\* sets the fragment to "#/", queues the hashchange of that redirect and
\* leaves the status banner as it was; and the delivery of a hashchange while
\* the fragment is "#/" leaves the route at index.
C1_FilteredOutRedirectsSilently ==
    [][ last'.event = "hashchange" =>
          /\ \A id \in DOMAIN state.documentMap :
               (NamesDetail(state.hash, id) /\ ~InFiltered(state, id)) =>
                   /\ state'.hash = IndexHash
                   /\ state'.pending = state.pending
                   /\ state'.status = state.status
          /\ IndexLike(state.hash) => state'.route = IndexRoute ]_vars

\* C1 witness: a hashchange was just handled, the route is the detail of a
\* known, filtered-out document, the fragment is already "#/" with its
\* hashchange queued, and the banner shows no error.
C1_Witness ==
    /\ last.event = "hashchange"
    /\ state.route.view = "detail"
    /\ state.route.id \in DOMAIN state.documentMap
    /\ ~InFiltered(state, state.route.id)
    /\ state.hash = IndexHash
    /\ state.pending > 0
    /\ state.status.hidden

\* C2: when the load has produced documents, every load continuation and
\* every hashchange delivery that finds the fragment naming an id absent from
\* the document map sets the fragment to "#/" and leaves the notice "The
\* requested API could not be found." visible as an error.
C2_UnknownIdRedirectsWithNotice ==
    [][ ( /\ last'.event \in {"loaded", "hashchange"}
          /\ attempt' = 0
          /\ Len(state'.documents) > 0
          /\ parseHash(state.hash).ok
          /\ parseHash(state.hash).route.view = "detail"
          /\ parseHash(state.hash).route.id \notin DOMAIN state'.documentMap )
        => (state'.hash = IndexHash /\ NoticeVisible(state')) ]_vars

\* C3 (as stated): the round trip index -> detail -> index ends with the
\* filtered results, the sort and the page it started from.
C3_RoundTripKeepsPage ==
    trip.phase = "back" =>
        /\ Ids(state.filtered) = trip.ids
        /\ state.currentSort = trip.sort
        /\ state.currentPage = trip.page

\* C3 (amended): the round trip index -> detail -> index, each navigation
\* delivered by its hashchange event, ends in the index view with the
\* filtered results and the sort it started from, and on page 1.
C3_RoundTripResetsPage ==
    trip.phase = "back" =>
        /\ state.route = IndexRoute
        /\ Ids(state.filtered) = trip.ids
        /\ state.currentSort = trip.sort
        /\ state.currentPage = 1

\* C3 witness: a round trip that started on page 2 is complete.
C3_Witness == trip.phase = "back" /\ trip.page = 2 /\ trip.sort = "date"

\* C4: after the handler of a search, category, domain or sort change, the
\* current page is 1.
C4_FilterChangeResetsPage ==
    last.event = "filter" => state.currentPage = 1

\* C4 witness: a filter or sort change was handled on page 2 and the new
\* filtered list still has a second page.
C4_Witness ==
    /\ last.event = "filter"
    /\ last.page = 2
    /\ Len(state.filtered) > pageSize
    /\ state.currentPage = 1

\* C5: after a handler that changed the route's view type the current page
\* is 1, and a hashchange delivery that kept the view type kept the page.
C5_ViewChangeResetsPage ==
    /\ last.view # state.route.view => state.currentPage = 1
    /\ (last.event = "hashchange" /\ last.view = state.route.view)
          => state.currentPage = last.page

\* C6: after applyFilters ran (a filter or sort change, or a load), the
\* filtered list holds, once each, exactly the documents whose categories
\* contain the active category (or it is "all"), whose contexts contain the
\* active domain (or it is "all") and whose search index contains the search
\* term (or it is empty).
C6_FilteredIsConjunction ==
    last.event \in {"filter", "loaded"} =>
        LET passes(doc) ==
                /\ state.activeCategory = All
                     \/ \E i \in 1..Len(doc.categories) : doc.categories[i] = state.activeCategory
                /\ state.activeDomain = All
                     \/ \E i \in 1..Len(doc.contexts) : doc.contexts[i] = state.activeDomain
                /\ state.searchTerm = <<>>
                     \/ \E i \in 1..Len(doc.searchIndex) :
                          /\ i + Len(state.searchTerm) - 1 <= Len(doc.searchIndex)
                          /\ \A j \in 1..Len(state.searchTerm) :
                               doc.searchIndex[i + j - 1] = state.searchTerm[j]
            kept == {i \in 1..Len(state.documents) : passes(state.documents[i])}
        IN  /\ Range(state.filtered) = {state.documents[i] : i \in kept}
            /\ Len(state.filtered) = Cardinality(kept)

\* C6 witness: all three filters are active and keep some documents but not
\* all of them.
C6_Witness ==
    /\ last.event = "filter"
    /\ state.activeCategory # All
    /\ state.activeDomain # All
    /\ state.searchTerm # <<>>
    /\ Len(state.filtered) > 0
    /\ Len(state.filtered) < Len(state.documents)

(***************************************************************************)
(* Claims about the normaliser (specification SpecNorm)                    *)
(***************************************************************************)
\* The raw entries of the payload with their category, in payload order.
Items == PayloadItems(payload)

\* The dedup key as the data model states it: the document number, else the
\* API name, else the first option's name, else "Untitled".
StatedKey(entry) ==
    IF entry.document_number # <<>> THEN entry.document_number
    ELSE IF entry.api_name # <<>> THEN entry.api_name
    ELSE IF entry.options # <<>> /\ entry.options[1].name # <<>>
         THEN entry.options[1].name
    ELSE Untitled

StatedKeys == {StatedKey(Items[n].entry) : n \in 1..Len(Items)}

\* The positions of the entries that share key k.
Contributors(k) == {n \in 1..Len(Items) : StatedKey(Items[n].entry) = k}

DocumentsOfKey(k) == {i \in 1..Len(state.documents) : state.documents[i].key = k}

\* The context tags an entry contributes: the trimmed, non-empty pieces of
\* its comma-separated context field.
StatedContexts(entry) ==
    {trim(piece) : piece \in Range(split(entry.context, ","))} \ {<<>>}

\* The first position of ns whose entry has a non-empty field, 0 if none.
FirstWith(ns, field) ==
    IF \E n \in ns : Items[n].entry[field] # <<>>
    THEN CHOOSE n \in ns : /\ Items[n].entry[field] # <<>>
                           /\ \A m \in ns : Items[m].entry[field] # <<>> => n <= m
    ELSE 0

\* C7: after a load, every dedup key of the payload has exactly one Document,
\* there are no other Documents, and the Document's categories, contexts and
\* lifecycle are, without repetition, the unions of what the entries of that
\* key contribute.
C7_OneDocumentPerKeyWithUnions ==
    last.event = "loaded" =>
        /\ Len(state.documents) = Cardinality(StatedKeys)
        /\ \A k \in StatedKeys :
             /\ Cardinality(DocumentsOfKey(k)) = 1
             /\ \A i \in DocumentsOfKey(k) :
                  LET doc == state.documents[i]
                  IN  /\ Range(doc.categories) =
                            {Items[n].category : n \in Contributors(k)}
                      /\ Range(doc.contexts) =
                            UNION {StatedContexts(Items[n].entry) : n \in Contributors(k)}
                      /\ Range(doc.lifecycle) =
                            {Items[n].entry.lifecycle_status : n \in Contributors(k)} \ {<<>>}
                      /\ Len(doc.categories) = Cardinality(Range(doc.categories))
                      /\ Len(doc.contexts) = Cardinality(Range(doc.contexts))
                      /\ Len(doc.lifecycle) = Cardinality(Range(doc.lifecycle))

\* C7 witness: a Document merged from three entries or more, listed under
\* two categories, with two context tags and two lifecycle states.
C7_Witness ==
    /\ last.event = "loaded"
    /\ \E i \in 1..Len(state.documents) :
         /\ Cardinality(Contributors(state.documents[i].key)) >= 3
         /\ Len(state.documents[i].categories) = 2
         /\ Len(state.documents[i].contexts) = 2
         /\ Len(state.documents[i].lifecycle) = 2

\* C8: after a load, a Document's description is the description of the
\* first entry of its key, in payload order, that has one, and is empty when
\* none has.
C8_FirstDescriptionWins ==
    last.event = "loaded" =>
        \A i \in 1..Len(state.documents) :
            LET doc == state.documents[i]
                first == FirstWith(Contributors(doc.key), "api_description")
            IN  doc.description =
                    IF first = 0 THEN <<>> ELSE Items[first].entry.api_description

\* C8 witness: a key whose first entry has no description and whose next two
\* entries have different ones; the Document carries the earlier of the two.
C8_Witness ==
    /\ last.event = "loaded"
    /\ \E i \in 1..Len(state.documents) :
         \E a, b, c \in Contributors(state.documents[i].key) :
            /\ a < b /\ b < c
            /\ Items[a].entry.api_description = <<>>
            /\ Items[b].entry.api_description # <<>>
            /\ Items[c].entry.api_description # <<>>
            /\ Items[c].entry.api_description # Items[b].entry.api_description
            /\ state.documents[i].description = Items[b].entry.api_description

\* C9: after a load, a Document's apiName is the first non-empty API name
\* among the entries of its key, in payload order, when one of them has an
\* API name, and likewise its documentNumber the first non-empty document
\* number.
C9_FirstApiNameWins ==
    last.event = "loaded" =>
        \A i \in 1..Len(state.documents) :
            LET doc == state.documents[i]
                firstName == FirstWith(Contributors(doc.key), "api_name")
                firstNumber == FirstWith(Contributors(doc.key), "document_number")
            IN  /\ firstName # 0 => doc.apiName = Items[firstName].entry.api_name
                /\ firstNumber # 0 =>
                      doc.documentNumber = Items[firstNumber].entry.document_number

\* C10: after a load, no two Documents share an id, the document map has one
\* entry per Document, and it maps every Document's id to that Document.
C10_IdsUnique ==
    last.event = "loaded" =>
        /\ \A i, j \in 1..Len(state.documents) :
             state.documents[i].id = state.documents[j].id => i = j
        /\ Cardinality(DOMAIN state.documentMap) = Len(state.documents)
        /\ \A i \in 1..Len(state.documents) :
             /\ state.documents[i].id \in DOMAIN state.documentMap
             /\ state.documentMap[state.documents[i].id] = state.documents[i]

\* C10 witness: two keys with the same slug base were loaded together with a
\* key whose own slug is the suffixed slug the collision would have produced.
C10_Witness ==
    /\ last.event = "loaded"
    /\ \E i, j, k \in 1..Len(state.documents) :
         /\ i # j
         /\ createSlug(state.documents[i].key) = createSlug(state.documents[j].key)
         /\ state.documents[j].id # createSlug(state.documents[j].key)
         /\ state.documents[k].id = createSlug(state.documents[k].key)
         /\ state.documents[k].id =
              createSlug(state.documents[j].key) \o <<"-">> \o numToStr(Len(state.documents))

\* The position of the first entry of key k, which is the position of k in
\* the order in which the keys are given their ids.
FirstOf(k) == CHOOSE n \in Contributors(k) : \A m \in Contributors(k) : n <= m

\* The id of the Document of key k.
IdOfKey(k) == state.documents[CHOOSE i \in DocumentsOfKey(k) : TRUE].id

\* The ids given before key k is given its own.
UsedBefore(k) == {IdOfKey(j) : j \in {i \in StatedKeys : FirstOf(i) < FirstOf(k)}}

\* slug followed by one numeric suffix.
Suffixed(slug, n) == slug \o <<"-">> \o numToStr(n)

\* C21: after a load, the id of a key whose base slug is unused is the base
\* slug; the id of a key whose base slug is used is the base slug followed
\* by one numeric suffix, the number being the first one, counting up from
\* the count of ids already used (or from that count plus one), whose
\* suffixed slug is unused.
C21_OneIncrementedSuffix ==
    last.event = "loaded" =>
        \A k \in StatedKeys :
           LET base == createSlug(k)
               used == UsedBefore(k)
               count == Cardinality(used)
           IN  IF base \notin used THEN IdOfKey(k) = base
               ELSE \E seed \in {count, count + 1} :
                       \E n \in seed..(seed + Len(Items)) :
                          /\ IdOfKey(k) = Suffixed(base, n)
                          /\ \A m \in seed..(n - 1) : Suffixed(base, m) \in used

\* The time stamp the data model gives a published date: that of the day for
\* a date "YYYY-MM-DD", 0 for an empty text or a text that is no date.
StatedStamp(published) ==
    IF /\ Len(published) = 10
       /\ published[5] = "-" /\ published[8] = "-"
       /\ \A i \in {1, 2, 3, 4, 6, 7, 9, 10} : IsDigit(published[i])
    THEN LET n(i) == IndexIn(DigitChars, published[i]) - 1
             year == 1000 * n(1) + 100 * n(2) + 10 * n(3) + n(4)
             month == 10 * n(6) + n(7)
             day == 10 * n(9) + n(10)
         IN  IF month \in 1..12 /\ day \in 1..31
             THEN 372 * year + 31 * month + day ELSE 0
    ELSE 0

NotAfter(a, b) == compareStrings(toLowerCase(a), toLowerCase(b)) <= 0

SameText(a, b) == compareStrings(toLowerCase(a), toLowerCase(b)) = 0

\* The order the sort key asks for between a Document and a later one.
InSortOrder(key, a, b) ==
    CASE key = "type" ->
            /\ NotAfter(a.primaryType, b.primaryType)
            /\ SameText(a.primaryType, b.primaryType) => NotAfter(a.apiName, b.apiName)
      [] key = "date" ->
            /\ a.latestPublished >= b.latestPublished
            /\ a.latestPublished = b.latestPublished => NotAfter(a.apiName, b.apiName)
      [] OTHER ->
            /\ NotAfter(a.apiName, b.apiName)
            /\ SameText(a.apiName, b.apiName) => NotAfter(a.documentNumber, b.documentNumber)

C16_EveryFragmentHasARoute ==
    last.event = "hashchange" =>
        /\ parseHash(state.hash).ok
        /\ state.route = parseHash(state.hash).route
        /\ IndexLike(state.hash) => state.route = IndexRoute

\* C17 (specification Spec): whenever no hashchange event is queued, before
\* the load has finished as well as after, the route is the route parsed from
\* the current fragment.
C17_RouteFollowsFragment ==
    state.pending = 0 =>
        /\ parseHash(state.hash).ok
        /\ state.route = parseHash(state.hash).route

Kept(s) ==
    <<s.documents, s.documentMap, s.filtered, s.searchTerm, s.currentSort,
      s.activeCategory, s.activeDomain>>

\* max(1, ceil(n / pageSize)), as the claim writes it.
StatedMaxPage(n) == IF n = 0 THEN 1 ELSE (n + pageSize - 1) \div pageSize

\* The page is within its bounds.
PageInBounds(s) ==
    /\ 1 <= s.currentPage
    /\ s.currentPage <= StatedMaxPage(Len(s.filtered))

\* The ids of filtered[(currentPage - 1) * pageSize .. currentPage * pageSize).
StatedSlice(s) ==
    LET start == (s.currentPage - 1) * pageSize
        rest == Len(s.filtered) - start
        n == IF rest > pageSize THEN pageSize ELSE IF rest > 0 THEN rest ELSE 0
    IN  [i \in 1..n |-> s.filtered[start + i].id]

\* The cards drawn are the page slice, and there are none only when the
\* filtered list is empty.
SliceShown(s) ==
    /\ s.cards = StatedSlice(s)
    /\ s.cards = <<>> <=> s.filtered = <<>>

\* prev and next move the page by exactly one inside the bounds and leave it
\* alone at a bound; neither touches the filtered list.
PagingMovesByOne ==
    /\ PrevPage => state'.currentPage = IF state.currentPage > 1
                                         THEN state.currentPage - 1
                                         ELSE state.currentPage
    /\ NextPage => state'.currentPage =
                      IF state.currentPage < StatedMaxPage(Len(state.filtered))
                      THEN state.currentPage + 1
                      ELSE state.currentPage
    /\ last'.event = "page" => state'.filtered = state.filtered

\* C22 as stated: in every state the page is within its bounds and the cards
\* shown are the page slice, empty only when the filtered list is empty;
\* prev and next move the page by exactly one inside the bounds.
C22_PageBoundsAndSlice ==
    [][ /\ PageInBounds(state) /\ PageInBounds(state')
        /\ SliceShown(state')
        /\ PagingMovesByOne ]_vars

\* C22 corrected: the same, the cards being the page slice in every state in
\* which no hashchange is pending; a handler that ends in a redirect to the
\* index leaves the cards of the list it replaced until the redirect's
\* hashchange is delivered.
C22_PageBoundsAndSliceWhenSettled ==
    [][ /\ PageInBounds(state) /\ PageInBounds(state')
        /\ state'.pending = 0 => SliceShown(state')
        /\ PagingMovesByOne ]_vars

\* C22 witness: the next button moved a two-page list from page 1 to its
\* last page, whose slice is shorter than a page.
C22_Witness ==
    /\ last.event = "page"
    /\ last.page = 1
    /\ state.currentPage = 2
    /\ state.currentPage = StatedMaxPage(Len(state.filtered))
    /\ state.cards = StatedSlice(state)
    /\ Len(state.cards) \in 1..(pageSize - 1)

\* Document id is in the document map and in the filtered list.
ValidDetail(s, id) ==
    /\ id \in DOMAIN s.documentMap
    /\ \E i \in 1..Len(s.filtered) : s.filtered[i].id = id

\* With documents loaded and no hashchange pending, a detail route names a
\* valid document, and a detail panel on screen is that of the route.
SettledDetailIsValid(s) ==
    (s.documents # <<>> /\ s.pending = 0) =>
        /\ s.route.view = "detail" => ValidDetail(s, s.route.id)
        /\ s.detailPanel # <<>> =>
              /\ s.route = DetailRoute(s.detailPanel)
              /\ ~s.detailHidden
              /\ ValidDetail(s, s.detailPanel)

\* The events that derive the route from the fragment.
RoutingEvents == {"hashchange", "loaded", "loadFailed", "normaliseFailed"}

\* C23: at the end of every handler, with documents loaded and no hashchange
\* pending, a detail route's id is in documentMap and in filtered and a
\* detail panel is drawn only for such a document; with no documents, a
\* detail route derived from the fragment is kept as it is, without a
\* redirect, no panel is drawn, and the other handlers leave it detail.
C23_DetailRouteValidWhenLoaded ==
    [][ /\ SettledDetailIsValid(state')
        /\ state'.documents = <<>> =>
              /\ state'.detailPanel = <<>>
              /\ (last'.event \in RoutingEvents /\ parseHash(state.hash).route.view = "detail") =>
                    /\ state'.route = parseHash(state.hash).route
                    /\ state'.hash = state.hash
                    /\ state'.pending <= state.pending
              /\ (last'.event \notin RoutingEvents /\ state.route.view = "detail") =>
                    state'.route = state.route ]_vars

\* C23 witness: a filter was changed while a document was shown in detail,
\* the document is in the shorter filtered list and stays shown.
C23_Witness ==
    /\ last.event = "filter"
    /\ state.pending = 0
    /\ state.route.view = "detail"
    /\ Len(state.filtered) \in 1..(Len(state.documents) - 1)
    /\ ValidDetail(state, state.route.id)
    /\ state.detailPanel = state.route.id
    /\ ~state.detailHidden

\* The hashchange events the handler of this step has raised.
Raised ==
    state'.pending - (IF last'.event = "hashchange" THEN state.pending - 1
                      ELSE state.pending)

\* A detail route that renderRoute redirects: documents are loaded and the
\* id is unknown or filtered out.
InvalidDetail(s) ==
    /\ s.documents # <<>>
    /\ s.route.view = "detail"
    /\ ~ValidDetail(s, s.route.id)

\* A hashchange to the index is pending under a detail route.
Redirecting ==
    /\ state.documents # <<>>
    /\ state.pending > 0
    /\ IndexLike(state.hash)
    /\ state.route.view = "detail"

\* Every handler raises at most one hashchange; with the fragment at the
\* index a delivery, a filter event and a page event raise none, the
\* delivery makes the route the index, and a filter event or a page move
\* that finds the route invalid makes it the index at once (a page button at
\* its bound does nothing); renderRoute runs at most twice for any route
\* called in the state reached.
RedirectsAreBounded ==
    [][ /\ Raised \in {0, 1}
        /\ (IndexLike(state.hash) /\ last'.event \in {"hashchange", "filter", "page"}) =>
              /\ Raised = 0
              /\ state'.hash = state.hash
              /\ last'.event = "hashchange" => state'.route = IndexRoute
              /\ ( /\ last'.event = "filter" \/ state'.currentPage # state.currentPage
                   /\ InvalidDetail([state' EXCEPT !.route = state.route]) ) =>
                    state'.route = IndexRoute
        /\ \A route \in {state'.route, DetailRoute(<<"z","z">>),
                           DetailRoute(<<"t","0","1">>)} :
              renderRouteCalls([state' EXCEPT !.route = route]) <= 2 ]_vars

FilteredIsCurrent(s) ==
    s.filtered = FilterAndSort(s.documents, s.activeCategory, s.activeDomain,
                               s.searchTerm, s.currentSort)

\* A select value that no category and no domain of the catalogue has.
GoneValue == <<"G">>

\* fetchResources run again, from s with the selects at the given values.
Reloaded(s, category, domain) ==
    LoadSucceeded([s EXCEPT !.activeCategory = category, !.activeDomain = domain],
                  payload, 1)

\* After a reload the filtered list is current, a select value the new
\* catalogue does not hold is back at "all", and one it holds is kept.
ReloadKeepsFilteredCurrent(s, category, domain) ==
    LET t == Reloaded(s, category, domain)
    IN  /\ FilteredIsCurrent(t)
        /\ t.activeCategory = IF category \in Range(CategoriesOf(t.documents))
                               THEN category ELSE All
        /\ t.activeDomain = IF domain \in Range(DomainsOf(t.documents))
                             THEN domain ELSE All

\* The events that touch neither the filter inputs nor the documents.
RouteAndPageEvents == {"hashchange", "click", "close", "user", "page"}

\* C25: at the end of every handler filtered is the filter-and-sort of
\* documents under the current category, domain, search term and sort key;
\* this is also so after a reload, where a category or domain that the new
\* catalogue does not hold is reset to "all"; route and page events leave
\* filtered, the filter inputs and the documents as they were.
C25_FilteredIsCurrent ==
    /\ [](FilteredIsCurrent(state))
    /\ [][ /\ last'.event \in RouteAndPageEvents => Kept(state') = Kept(state)
           /\ last'.event = "loaded" =>
                 \A category \in {GoneValue, CategoryX}, domain \in {GoneValue, <<"q">>} :
                    ReloadKeepsFilteredCurrent(state', category, domain) ]_vars

\* C25 witness: a hashchange was delivered while a category, a domain and a
\* search term were set, and the filtered list, shorter than the catalogue,
\* is still the list of those inputs.
C25_Witness ==
    /\ last.event = "hashchange"
    /\ state.activeCategory # All
    /\ state.activeDomain # All
    /\ state.searchTerm # <<>>
    /\ Len(state.filtered) \in 1..(Len(state.documents) - 1)
    /\ FilteredIsCurrent(state)

(***************************************************************************)
(* Claims about the loader (specification Spec)                            *)
(***************************************************************************)
\* C11: the sources are attempted in list order, attempt i + 1 starting only
\* when attempt i has failed; a source that answers ends the attempts, its
\* position becomes state.apiSource and its data the documents; when the last
\* source fails too, the failure fetchResources logs is that of the last
\* attempt; and no attempt is made once loadPayload has returned or thrown.
C11_SourcesInOrder ==
    [][ /\ attempt' # attempt =>
              /\ attempt # 0
              /\ attempt' = 0 \/ attempt' = attempt + 1
        /\ attempt' = attempt + 1 <=> last'.event = "fetchFailed"
        /\ last'.event = "fetchFailed" => state'.lastError = FetchError(attempt)
        /\ last'.event \in {"loaded", "normaliseFailed"} =>
              /\ attempt' = 0
              /\ state'.apiSource = attempt
              /\ attempt > 1 => state.lastError = FetchError(attempt - 1)
        /\ last'.event = "loaded" =>
              Ids(state'.documents) = Ids(normaliseResources(payload))
        /\ last'.event = "loadFailed" =>
              /\ attempt = NumSources
              /\ attempt' = 0
              /\ state'.logged = FetchError(NumSources) ]_vars

\* C11 witness: the third source answered after the first two had failed, and
\* its documents are loaded.
C11_Witness ==
    /\ last.event = "loaded"
    /\ attempt = 0
    /\ state.apiSource = NumSources
    /\ state.lastError = FetchError(NumSources - 1)
    /\ Len(state.documents) > 0

\* The step in which fetchResources succeeds: the spinner is off, nothing is
\* logged, the documents are those of the payload, the map holds exactly
\* their ids, the page is 1 and the filtered list is the filtered, sorted
\* documents.
SuccessOutcome ==
    /\ ~state'.spinner
    /\ state'.logged = NoError
    /\ state'.documents = normaliseResources(payload)
    /\ DOMAIN state'.documentMap = Range(Ids(state'.documents))
    /\ \A id \in DOMAIN state'.documentMap : state'.documentMap[id].id = id
    /\ state'.currentPage = 1
    /\ state'.filtered = FilterAndSort(state'.documents, state'.activeCategory,
                                        state'.activeDomain, state'.searchTerm,
                                        state'.currentSort)

\* The step in which fetchResources fails: the spinner is off, the banner
\* shows the error message and the collections and filters are untouched.
FailureOutcome ==
    /\ ~state'.spinner
    /\ state'.logged # NoError
    /\ state'.status = [hidden |-> FALSE, message |-> LoadErrorMessage, error |-> TRUE]
    /\ Kept(state') = Kept(state)

\* fetchResources ends in one of the two outcomes.
LoadOutcomes ==
    [][ /\ last'.event = "loaded" => SuccessOutcome
        /\ last'.event \in {"loadFailed", "normaliseFailed"} => FailureOutcome
        /\ attempt' = 0 /\ attempt # 0 =>
              last'.event \in {"loaded", "loadFailed", "normaliseFailed"} ]_vars

\* Every load ends, and stays ended, with the spinner off.
LoadEnds == <>[](attempt = 0 /\ ~state.spinner)

\* When fetchResources has ended the route is the one its fragment names.
RouteRederived ==
    [][ (attempt' = 0 /\ attempt # 0) =>
            /\ parseHash(state.hash).ok
            /\ state'.route = parseHash(state.hash).route ]_vars

\* C19: every load whose fetch attempts complete ends with the spinner off,
\* either in success (documents and map rebuilt from the payload, page 1,
\* filtered list recomputed) or in failure (error message shown, documents,
\* map, filtered list and filters as they were), and in both outcomes the
\* route is then the one the fragment names.
C19_LoadEndsInOneOutcomeThenRoutes == LoadOutcomes /\ LoadEnds /\ RouteRederived

\* The banner as fetchResources leaves it after a load from `source`: hidden
\* for the primary source, the proxy notice (no error) for a fallback.
StatedBanner(status, source) ==
    IF source = 1 THEN status.hidden
    ELSE status = [hidden |-> FALSE, message |-> ProxyMessage, error |-> FALSE]

\* The fragment names a document that the loaded catalogue does not hold.
UnknownRequested(hash, documentMap) ==
    /\ parseHash(hash).ok
    /\ parseHash(hash).route.view = "detail"
    /\ DOMAIN documentMap # {}
    /\ parseHash(hash).route.id \notin DOMAIN documentMap

\* The fragment when fetchResources ends: "#/" when the route it started
\* with was a detail that the new filtered list does not hold (applyFilters
\* has redirected it), the fragment it started with otherwise.
FragmentWhenLoaded ==
    IF /\ state.route.view = "detail"
       /\ state'.documents # <<>>
       /\ state.route.id \notin Range(Ids(state'.filtered))
    THEN IndexHash
    ELSE state.hash

ErrorShown(s) == ~s.status.hidden /\ s.status.error

\* C12: a payload that was fetched and parsed is normalised into a Document
\* list and never ends in the error status.
C12_NormaliserNeverFails ==
    (attempt = 0 /\ last.event # "loadFailed") =>
        /\ last.event = "loaded"
        /\ ~ErrorShown(state)
        /\ state.logged = NoError

\* C13: the banner enters the error state only in the step in which the last
\* source has failed.
C13_ErrorOnlyWhenAllSourcesFail ==
    [][ (ErrorShown(state') /\ ~ErrorShown(state)) => last'.event = "loadFailed" ]_vars

====
